---- MODULE Spec2Model ----
(***************************************************************************)
(* Model of the conjure delegation tools:                                  *)
(*   tools/delegation_executor.py  (Delegator)                             *)
(*   tools/usage_logger.py         (GeminiUsageLogger)                     *)
(*   tools/quota_tracker.py        (GeminiQuotaTracker)                    *)
(*                                                                         *)
(* Time is counted in whole seconds.  A timestamp written with             *)
(* datetime.isoformat() and read back with datetime.fromisoformat() is the *)
(* same instant, so a stored timestamp is the integer it was written from. *)
(* A Python value that may be None, and a file that may be absent, is a    *)
(* sequence of length 0 (None / no file) or 1 (the value).                 *)
(***************************************************************************)
EXTENDS Integers, Sequences, FiniteSets, TLC

\* ------------------------------------------------------------------ bounds
MaxCalls == 3
MaxEvents == 3
MaxRequests == 3
MaxEntries == 2
MaxFiles == 2

\* ------------------------------------------------------- program constants
SESSION_TIMEOUT_SECONDS == 3600
SecondsPerDay == 86400
SecondsPerMinute == 60
TimeoutExitCode == 124
ExceptionExitCode == 1

\* The instants at which the clock is sampled: around the session timeout
\* for the logger, around the minute and the day for the quota tracker.
LoggerInstants == {0, 1800, 3599, 3600, 3601, 86400, 88200}
QuotaInstants == {0, 59, 60, 86400, 86460}

Procs == {1, 2}

None == <<>>
Some(v) == <<v>>

VARIABLES
    now,            \* the wall clock, datetime.now() / time.time()
    SERVICES,       \* Delegator.SERVICES, the class-level service table
    exec_log,       \* Delegator.usage_log, the lines of usage.jsonl
    exec_call,      \* the last call of Delegator.execute and what the child did
    exec_result,    \* what that call gave back to its caller
    exec_calls,     \* number of calls of Delegator.execute so far
    logger_log,     \* GeminiUsageLogger.usage_log, the lines of usage.jsonl
    session_file,   \* GeminiUsageLogger.session_file, current_session.json
    limits,         \* GeminiQuotaTracker.limits
    usage_file,     \* GeminiQuotaTracker.usage_file, usage.json
    usage_data,     \* GeminiQuotaTracker.usage_data of each process
    check_result,   \* the last call of can_handle_task and what it returned
    quota_calls,    \* parity of the calls answered by the tracker so far
    pc,             \* position of each racing process
    sess_local,     \* session_data read by a racing process
    answer          \* the last call of another operation and what it gave back

vars == <<now, SERVICES, exec_log, exec_call, exec_result, exec_calls,
          logger_log, session_file, limits, usage_file, usage_data,
          check_result, quota_calls, pc, sess_local, answer>>

execVars == <<SERVICES, exec_log, exec_call, exec_result, exec_calls>>
loggerVars == <<logger_log, session_file>>
quotaVars == <<usage_file, usage_data, check_result, quota_calls>>
raceVars == <<pc, sess_local>>

\* ------------------------------------------------------------ dictionaries
\* dict.get(k, default)
Get(d, k, default) == IF k \in DOMAIN d THEN d[k] ELSE default

\* d[k] = v
Put(d, k, v) == (k :> v) @@ d

RECURSIVE SumSeq(_)
SumSeq(s) == IF s = <<>> THEN 0 ELSE Head(s) + SumSeq(Tail(s))

\* --------------------------------------------------------------- timedelta
\* timedelta.days and timedelta.seconds of a difference of d seconds:
\* Python normalises to 0 <= seconds < 86400.
TimedeltaDays(d) == d \div SecondsPerDay

TimedeltaSeconds(d) == d % SecondsPerDay

\* ================================================================ Delegator
DefaultServices ==
    [n \in {"gemini", "qwen"} |->
        IF n = "gemini"
        THEN [name |-> "gemini", command |-> "gemini", auth_method |-> "api_key",
              auth_env_var |-> Some("GEMINI_API_KEY"),
              quota_limits |-> Some([requests_per_minute |-> 60,
                                     requests_per_day |-> 1000,
                                     tokens_per_day |-> 1000000])]
        ELSE [name |-> "qwen", command |-> "qwen", auth_method |-> "cli",
              auth_env_var |-> None,
              quota_limits |-> Some([requests_per_minute |-> 120,
                                     requests_per_day |-> 2000,
                                     tokens_per_day |-> 2000000])]]

ServiceNames == {"gemini", "qwen", "unknown"}

\* The file system seen by estimate_tokens: a file, a directory, nothing.
Paths == {"a.py", "pkg", "missing"}

PathChars(p) ==
    CASE p = "a.py" -> 9       \* is_file(): st_size
      [] p = "pkg" -> 6        \* is_dir(): sizes of the source files below it
      [] OTHER -> 0            \* neither: contributes nothing

FileLists == {<<>>, <<"pkg", "missing", "a.py">>}

PromptLengths == {8}

\* Exit codes of the child process.
ReturnCodes == {0, 2}

estimate_tokens(files, prompt_len) ==
    (prompt_len + SumSeq([i \in 1..Len(files) |-> PathChars(files[i])])) \div 4

NoCall == [service |-> "", env |-> "none", returncode |-> 0, io_ok |-> TRUE]

NoResult == [status |-> "none", success |-> FALSE, stderr |-> "",
             exit_code |-> 0, tokens_used |-> None, service |-> ""]

Returned(success, stderr, exit_code, tokens_used, service) ==
    [status |-> "returned", success |-> success, stderr |-> stderr,
     exit_code |-> exit_code, tokens_used |-> tokens_used, service |-> service]

\* Mutant: the usage log is opened for writing, not for appending.
exec_log_usage_truncates(log, service_name, result, io_ok) ==
    IF io_ok
    THEN <<[timestamp |-> now, service |-> service_name,
            success |-> result.success,
            tokens_used |-> result.tokens_used,
            exit_code |-> result.exit_code,
            error |-> IF ~result.success THEN Some(result.stderr) ELSE None]>>
    ELSE log

\* Delegator.log_usage: one line appended, an I/O error is printed and dropped.
exec_log_usage(log, service_name, result, io_ok) ==
    IF io_ok
    THEN Append(log, [timestamp |-> now, service |-> service_name,
                      success |-> result.success,
                      tokens_used |-> result.tokens_used,
                      exit_code |-> result.exit_code,
                      error |-> IF ~result.success THEN Some(result.stderr) ELSE None])
    ELSE log

\* execute, subprocess.run returned: the child ran and exited with returncode.
execute_completed(service_name, files, prompt_len, returncode, io_ok) ==
    /\ exec_calls < MaxCalls
    /\ service_name \in DOMAIN SERVICES
    /\ LET result == Returned(returncode = 0,
                              IF returncode = 0 THEN "" ELSE "child stderr",
                              returncode,
                              Some(estimate_tokens(files, prompt_len)),
                              service_name)
       IN /\ exec_result' = result
          /\ exec_log' = exec_log_usage(exec_log, service_name, result, io_ok)
    /\ exec_call' = [service |-> service_name, env |-> "exited",
                     returncode |-> returncode, io_ok |-> io_ok]
    /\ exec_calls' = exec_calls + 1

ExecuteCompleted(service_name, files, prompt_len, returncode, io_ok) ==
    /\ execute_completed(service_name, files, prompt_len, returncode, io_ok)
    /\ UNCHANGED <<now, SERVICES, loggerVars, limits, answer, quotaVars, raceVars>>

\* Mutant: no handler for TimeoutExpired, the general handler answers.
ExecuteTimedOut_generic(service_name) ==
    /\ exec_calls < MaxCalls
    /\ service_name \in DOMAIN SERVICES
    /\ exec_result' = Returned(FALSE, "str(e)", ExceptionExitCode,
                               None, service_name)
    /\ exec_call' = [service |-> service_name, env |-> "timeout",
                     returncode |-> 0, io_ok |-> TRUE]
    /\ exec_calls' = exec_calls + 1
    /\ UNCHANGED <<now, SERVICES, exec_log, loggerVars, limits, answer, quotaVars, raceVars>>

\* execute, subprocess.run raised TimeoutExpired.
execute_timed_out(service_name) ==
    /\ exec_calls < MaxCalls
    /\ service_name \in DOMAIN SERVICES
    /\ exec_result' = Returned(FALSE, "Command timed out", TimeoutExitCode,
                               None, service_name)
    /\ exec_call' = [service |-> service_name, env |-> "timeout",
                     returncode |-> 0, io_ok |-> TRUE]
    /\ exec_calls' = exec_calls + 1
    /\ UNCHANGED exec_log

ExecuteTimedOut(service_name) ==
    /\ execute_timed_out(service_name)
    /\ UNCHANGED <<now, SERVICES, loggerVars, limits, answer, quotaVars, raceVars>>

\* Mutant: no general handler, the exception reaches the caller.
ExecuteLaunchFailed_raises(service_name) ==
    /\ exec_calls < MaxCalls
    /\ service_name \in DOMAIN SERVICES
    /\ exec_result' = [NoResult EXCEPT !.status = "raised", !.stderr = "str(e)"]
    /\ exec_call' = [service |-> service_name, env |-> "launch_failed",
                     returncode |-> 0, io_ok |-> TRUE]
    /\ exec_calls' = exec_calls + 1
    /\ UNCHANGED <<now, SERVICES, exec_log, loggerVars, limits, answer, quotaVars, raceVars>>

\* execute, subprocess.run raised another exception (command not found, ...).
execute_launch_failed(service_name) ==
    /\ exec_calls < MaxCalls
    /\ service_name \in DOMAIN SERVICES
    /\ exec_result' = Returned(FALSE, "str(e)", ExceptionExitCode,
                               None, service_name)
    /\ exec_call' = [service |-> service_name, env |-> "launch_failed",
                     returncode |-> 0, io_ok |-> TRUE]
    /\ exec_calls' = exec_calls + 1
    /\ UNCHANGED exec_log

ExecuteLaunchFailed(service_name) ==
    /\ execute_launch_failed(service_name)
    /\ UNCHANGED <<now, SERVICES, loggerVars, limits, answer, quotaVars, raceVars>>

\* execute, build_command raised KeyError outside the try: unregistered name.
ExecuteUnknownService(service_name) ==
    /\ exec_calls < MaxCalls
    /\ service_name \notin DOMAIN SERVICES
    /\ exec_result' = [NoResult EXCEPT !.status = "raised", !.stderr = "KeyError"]
    /\ exec_call' = [service |-> service_name, env |-> "not_started",
                     returncode |-> 0, io_ok |-> TRUE]
    /\ exec_calls' = exec_calls + 1
    /\ UNCHANGED <<now, SERVICES, exec_log, loggerVars, limits, answer, quotaVars, raceVars>>

\* The clock moves on to a later instant.
Tick(instants) ==
    /\ \E t \in instants : t > now /\ now' = t
    /\ UNCHANGED <<execVars, loggerVars, limits, answer, quotaVars, raceVars>>

\* ------------------------------------------------------------- build_command
\* What a path is on disk: a regular file, a directory, something else that
\* exists (a device, a socket), a path that cannot be examined, nothing.
PathKind(p) ==
    CASE p = "a.py" -> "file"
      [] p = "pkg" -> "dir"
      [] p = "/dev/null" -> "other"
      [] p = "locked" -> "inaccessible"
      [] OTHER -> "missing"

\* f"@{file_path}" and f"@{file_path}/**/*", as the pieces put together.
FileRef(p) == <<"@", p>>
DirRef(p) == <<"@", p, "/**/*">>

\* The loop over files: a reference for a path that exists and is a file or
\* a directory, nothing for any other path.
RECURSIVE file_refs(_)
file_refs(files) ==
    IF files = <<>> THEN <<>>
    ELSE LET p == Head(files)
             rest == file_refs(Tail(files))
         IN IF PathKind(p) = "file" THEN <<FileRef(p)>> \o rest
            ELSE IF PathKind(p) = "dir" THEN <<DirRef(p)>> \o rest
            ELSE rest

\* Mutant: a listed path is referenced without asking whether it exists.
FullPrompt_unchecked(prompt, files) ==
    [i \in 1..Len(files) |->
        IF PathKind(files[i]) = "dir" THEN DirRef(files[i]) ELSE FileRef(files[i])]
    \o <<prompt>>

\* full_prompt: the references and the prompt, joined by single spaces; the
\* prompt alone when there is no reference.
FullPrompt(prompt, files) == file_refs(files) \o <<prompt>>

\* str(options["temperature"])
StrOf(x) == [str |-> x]

OptionArgs(service_name, options) ==
    (IF "model" \in DOMAIN options THEN <<"--model", options["model"]>> ELSE <<>>)
    \o (IF "output_format" \in DOMAIN options
        THEN IF service_name = "gemini"
             THEN <<"--output-format", options["output_format"]>>
             ELSE IF service_name = "qwen"
             THEN <<"--format", options["output_format"]>>
             ELSE <<>>
        ELSE <<>>)
    \o (IF "temperature" \in DOMAIN options
        THEN <<"--temperature", StrOf(options["temperature"])>> ELSE <<>>)

\* build_command for a registered service: the argument list.
BuildCommand(services, service_name, prompt, files, options) ==
    <<services[service_name].command>>
    \o OptionArgs(service_name, options)
    \o <<"-p", FullPrompt(prompt, files)>>

\* build_command; SERVICES[service_name] raises KeyError for an unknown name.
build_command(service_name, prompt, files, options) ==
    /\ answer' =
          IF service_name \in DOMAIN SERVICES
          THEN [op |-> "build_command", serial |-> 1 - answer.serial,
                service |-> service_name, prompt |-> prompt, files |-> files,
                status |-> "returned",
                command |-> BuildCommand(SERVICES, service_name, prompt, files,
                                         options)]
          ELSE [op |-> "build_command", serial |-> 1 - answer.serial,
                service |-> service_name, prompt |-> prompt, files |-> files,
                status |-> "raised", command |-> <<>>]
    /\ UNCHANGED <<now, execVars, loggerVars, limits, quotaVars, raceVars>>

\* Delegator.estimate_tokens, called on its own.
delegator_estimate_tokens(files, prompt_len) ==
    /\ answer' = [op |-> "Delegator.estimate_tokens", serial |-> 1 - answer.serial,
                  file_paths |-> files, prompt_length |-> prompt_len,
                  status |-> "returned",
                  tokens |-> estimate_tokens(files, prompt_len)]
    /\ UNCHANGED <<now, execVars, loggerVars, limits, quotaVars, raceVars>>

\* The inputs of build_command: lists of up to MaxFiles paths, options.
CommandPaths == {"a.py", "pkg", "/dev/null", "missing"}

CommandFileLists == UNION {[1..n -> CommandPaths] : n \in 0..MaxFiles}

OptionChoices ==
    {<<>>,
     ("model" :> "gemini-2.0-pro-exp"),
     ("output_format" :> "json") @@ ("temperature" :> 1)}

Prompts == {"summarise"}

\* ------------------------------------------------------ load_configurations
\* The fields of the dataclass ServiceConfig; the first three have no default.
ServiceConfigFields ==
    {"name", "command", "auth_method", "auth_env_var", "quota_limits"}

RequiredFields == {"name", "command", "auth_method"}

\* ServiceConfig(**service_config) raises TypeError for a missing required
\* field and for a keyword that is no field.
Constructible(service_config) ==
    /\ RequiredFields \subseteq DOMAIN service_config
    /\ DOMAIN service_config \subseteq ServiceConfigFields

NewServiceConfig(service_config) ==
    [name |-> service_config["name"],
     command |-> service_config["command"],
     auth_method |-> service_config["auth_method"],
     auth_env_var |-> Get(service_config, "auth_env_var", None),
     quota_limits |-> Get(service_config, "quota_limits", None)]

\* Mutant: an override may rename a known service.
MergeEntry_renames(services, entry) ==
    IF entry.key \in DOMAIN services
    THEN LET current == services[entry.key]
         IN [raised |-> FALSE,
             services |-> Put(services, entry.key,
                 [name |-> Get(entry.fields, "name", current.name),
                  command |-> Get(entry.fields, "command", current.command),
                  auth_method |-> Get(entry.fields, "auth_method", current.auth_method),
                  auth_env_var |-> Get(entry.fields, "auth_env_var", current.auth_env_var),
                  quota_limits |-> Get(entry.fields, "quota_limits", current.quota_limits)])]
    ELSE IF Constructible(entry.fields)
    THEN [raised |-> FALSE,
          services |-> Put(services, entry.key, NewServiceConfig(entry.fields))]
    ELSE [raised |-> TRUE, services |-> services]

\* One pass of the loop over custom_config["services"]: the entry
\* (service_name, service_config) is merged into the registry, or raises.
MergeEntry(services, entry) ==
    IF entry.key \in DOMAIN services
    THEN LET current == services[entry.key]
         IN [raised |-> FALSE,
             services |-> Put(services, entry.key,
                 [name |-> current.name,
                  command |-> Get(entry.fields, "command", current.command),
                  auth_method |-> Get(entry.fields, "auth_method", current.auth_method),
                  auth_env_var |-> Get(entry.fields, "auth_env_var", current.auth_env_var),
                  quota_limits |-> Get(entry.fields, "quota_limits", current.quota_limits)])]
    ELSE IF Constructible(entry.fields)
    THEN [raised |-> FALSE,
          services |-> Put(services, entry.key, NewServiceConfig(entry.fields))]
    ELSE [raised |-> TRUE, services |-> services]

\* The loop: the entries are merged in the order of the file, each into the
\* registry itself, until one raises.
RECURSIVE MergeEntries(_, _)
MergeEntries(services, entries) ==
    IF entries = <<>>
    THEN [raised |-> FALSE, services |-> services]
    ELSE LET r == MergeEntry(services, Head(entries))
         IN IF r.raised THEN r ELSE MergeEntries(r.services, Tail(entries))

\* The configuration file: absent, not JSON, or a "services" object.
NoConfigFile == [kind |-> "absent", entries |-> <<>>]
InvalidJson == [kind |-> "invalid_json", entries |-> <<>>]
ServicesConfig(entries) == [kind |-> "services", entries |-> entries]

\* load_configurations on a registry: what the except clause saw, the registry.
LoadConfigurations(services, config) ==
    CASE config.kind = "absent" -> [raised |-> FALSE, services |-> services]
      [] config.kind = "invalid_json" -> [raised |-> TRUE, services |-> services]
      [] OTHER -> MergeEntries(services, config.entries)

\* Delegator(): load_configurations runs on the class-level registry; an
\* exception is printed as a warning.
load_configurations(config) ==
    /\ LET r == LoadConfigurations(SERVICES, config)
       IN /\ SERVICES' = r.services
          /\ answer' = [op |-> "load_configurations", serial |-> 1 - answer.serial,
                        config |-> config, status |-> "returned",
                        warned |-> r.raised]
    /\ UNCHANGED <<now, exec_log, exec_call, exec_result, exec_calls, loggerVars,
                   limits, quotaVars, raceVars>>

\* Entries of a user's configuration file: overrides of the two built-in
\* services, a new service, a new service without its required fields.
GeminiCommand == [key |-> "gemini", fields |-> ("command" :> "gemini-beta")]

GeminiRenamed ==
    [key |-> "gemini",
     fields |-> ("name" :> "renamed") @@ ("auth_env_var" :> Some("GOOGLE_API_KEY"))]

QwenApiKey ==
    [key |-> "qwen",
     fields |-> ("auth_method" :> "api_key") @@ ("auth_env_var" :> Some("QWEN_KEY"))
                @@ ("quota_limits" :> None)]

LocalService ==
    [key |-> "local",
     fields |-> ("name" :> "local") @@ ("command" :> "local-llm")
                @@ ("auth_method" :> "cli")]

BrokenService == [key |-> "broken", fields |-> ("command" :> "broken-llm")]

ConfigEntries ==
    <<GeminiCommand, GeminiRenamed, QwenApiKey, LocalService, BrokenService>>

\* The files: a "services" object of up to MaxEntries entries, each service
\* name once.
ConfigChoices ==
    {NoConfigFile, InvalidJson}
    \cup {ServicesConfig([k \in 1..Len(q) |-> ConfigEntries[q[k]]]) :
              q \in {q \in UNION {[1..n -> 1..Len(ConfigEntries)] : n \in 1..MaxEntries} :
                        \A a \in 1..Len(q), b \in 1..Len(q) :
                            a # b => ConfigEntries[q[a]].key # ConfigEntries[q[b]].key}}

\* ------------------------------------------------------------ verify_service
\* What the probes of a service's command meet: "<command> --version" runs and
\* exits 0, exits non-zero (CalledProcessError), is not there
\* (FileNotFoundError), hangs (TimeoutExpired) or cannot be executed
\* (PermissionError); the environment variable is set and not empty;
\* "<command> auth status" exits 0, exits non-zero, or raises.
VersionProbes == {"ok", "nonzero_exit", "not_found", "timeout", "permission_denied"}
AuthProbes == {"ok", "nonzero_exit", "throws"}

\* A command that cannot be started cannot be asked for its auth status.
Environments ==
    {env \in [version : VersionProbes, env_var_set : BOOLEAN, auth : AuthProbes] :
        env.version \in {"not_found", "permission_denied"} => env.auth = "throws"}

UnknownServiceIssue == "Unknown service"
CommandIssue == "Command not found or not working"
EnvVarIssue == "Environment variable not set"
NotAuthenticatedIssue == "Service not authenticated"
AuthStatusIssue == "Could not verify authentication status"

\* verify_service in an environment: (ready, issues), or the exception the
\* version probe lets through.
VerifyService(services, service_name, env) ==
    IF service_name \notin DOMAIN services
    THEN [status |-> "returned", ready |-> FALSE, issues |-> <<UnknownServiceIssue>>]
    ELSE IF env.version = "permission_denied"
    THEN [status |-> "raised", ready |-> FALSE, issues |-> <<>>]
    ELSE LET service == services[service_name]
             probe_issues == IF env.version # "ok" THEN <<CommandIssue>> ELSE <<>>
             auth_issues ==
                 IF service.auth_method = "api_key" /\ service.auth_env_var # None
                 THEN IF ~env.env_var_set THEN <<EnvVarIssue>> ELSE <<>>
                 ELSE IF service.auth_method = "cli"
                 THEN CASE env.auth = "ok" -> <<>>
                        [] env.auth = "nonzero_exit" -> <<NotAuthenticatedIssue>>
                        [] OTHER -> <<AuthStatusIssue>>
                 ELSE <<>>
             issues == probe_issues \o auth_issues
         IN [status |-> "returned", ready |-> issues = <<>>, issues |-> issues]

verify_service(service_name, env) ==
    /\ answer' = [op |-> "verify_service", serial |-> 1 - answer.serial,
                  service |-> service_name, env |-> env,
                  result |-> VerifyService(SERVICES, service_name, env)]
    /\ UNCHANGED <<now, execVars, loggerVars, limits, quotaVars, raceVars>>

\* ------------------------------------------------------------ smart_delegate
\* A machine: the tool is installed and authenticated, or it is not installed.
Ready == [version |-> "ok", env_var_set |-> TRUE, auth |-> "ok"]
NotInstalled == [version |-> "not_found", env_var_set |-> FALSE, auth |-> "throws"]

Worlds == [{"gemini", "qwen", "local"} -> {Ready, NotInstalled}]

\* requirements, a missing key read by .get() being falsy.
NoRequirements ==
    [large_context |-> FALSE, gemini_available |-> FALSE, code_execution |-> FALSE,
     qwen_available |-> FALSE, fast_response |-> FALSE]

RequirementChoices ==
    {NoRequirements,
     [NoRequirements EXCEPT !.large_context = TRUE, !.gemini_available = TRUE],
     [NoRequirements EXCEPT !.large_context = TRUE],
     [NoRequirements EXCEPT !.code_execution = TRUE, !.qwen_available = TRUE],
     [NoRequirements EXCEPT !.code_execution = TRUE, !.fast_response = TRUE],
     [NoRequirements EXCEPT !.fast_response = TRUE]}

Selected(service_name) == [status |-> "selected", service |-> service_name]

NoServiceError == "RuntimeError: No delegation services available"

\* The selection of smart_delegate: a service, or the exception raised. The
\* default branch verifies "gemini" and then "qwen".
SelectService(services, requirements, world) ==
    IF requirements.large_context /\ requirements.gemini_available
    THEN Selected("gemini")
    ELSE IF requirements.code_execution /\ requirements.qwen_available
    THEN Selected("qwen")
    ELSE IF requirements.fast_response
    THEN Selected("gemini")
    ELSE LET gemini == VerifyService(services, "gemini", world["gemini"])
             qwen == VerifyService(services, "qwen", world["qwen"])
         IN IF gemini.status = "raised"
            THEN [status |-> "raised", service |-> "", error |-> "PermissionError"]
            ELSE IF gemini.ready THEN Selected("gemini")
            ELSE IF qwen.status = "raised"
            THEN [status |-> "raised", service |-> "", error |-> "PermissionError"]
            ELSE IF qwen.ready THEN Selected("qwen")
            ELSE [status |-> "raised", service |-> "", error |-> NoServiceError]

\* options["model"] of the execution.
ModelOption(requirements, service_name) ==
    IF requirements.large_context
    THEN Some(IF service_name = "gemini" THEN "gemini-2.0-pro-exp" ELSE "qwen-max")
    ELSE IF requirements.fast_response
    THEN Some(IF service_name = "gemini" THEN "gemini-2.0-flash-exp" ELSE "qwen-turbo")
    ELSE None

\* smart_delegate: the selection, then execute with the selected service; a
\* command that is not installed makes subprocess.run raise in execute.
smart_delegate(requirements, world, returncode) ==
    /\ LET selection == SelectService(SERVICES, requirements, world)
       IN IF selection.status = "raised"
          THEN /\ answer' = [op |-> "smart_delegate", serial |-> 1 - answer.serial,
                             requirements |-> requirements, world |-> world,
                             status |-> "raised", service |-> "",
                             error |-> selection.error, model |-> None]
               /\ UNCHANGED <<exec_log, exec_call, exec_result, exec_calls>>
          ELSE /\ IF world[selection.service].version \in {"not_found", "permission_denied"}
                  THEN execute_launch_failed(selection.service)
                  ELSE execute_completed(selection.service, <<>>, 8, returncode, TRUE)
               /\ answer' = [op |-> "smart_delegate", serial |-> 1 - answer.serial,
                             requirements |-> requirements, world |-> world,
                             status |-> "returned", service |-> selection.service,
                             error |-> "",
                             model |-> ModelOption(requirements, selection.service)]
    /\ UNCHANGED <<now, SERVICES, loggerVars, limits, quotaVars, raceVars>>

\* ======================================================== GeminiUsageLogger
EstimatedTokens == {2}
ActualTokens == {None, Some(0), Some(3)}

\* Mutant: the timeout taken for minutes.
SessionIsRecent_minutes(elapsed) == elapsed < SESSION_TIMEOUT_SECONDS \div 60

\* elapsed < SESSION_TIMEOUT_SECONDS
SessionIsRecent(elapsed) == elapsed < SESSION_TIMEOUT_SECONDS

\* _get_session_id: the id to use and the session file it leaves behind.
get_session_id(file, t) ==
    LET created == [id |-> t,
                    file |-> Some(("session_id" :> t) @@ ("start_time" :> t)
                                  @@ ("last_activity" :> t))]
    IN IF file # None /\ "last_activity" \in DOMAIN file[1]
       THEN LET session_data == file[1]
                elapsed == TimedeltaSeconds(t - session_data["last_activity"])
            IN IF SessionIsRecent(elapsed)
               THEN [id |-> Get(session_data, "session_id", -1), file |-> file]
               ELSE created
       ELSE created

\* Mutant: total_requests raised for successful requests only.
update_session_stats_successful(file, log_entry, t) ==
    LET session_data == IF file # None THEN file[1]
                        ELSE ("session_id" :> get_session_id(file, t).id)
        d1 == Put(session_data, "last_activity", log_entry.timestamp)
        d2 == Put(d1, "total_tokens",
                  Get(session_data, "total_tokens", 0) + log_entry.actual_tokens)
        d3 == IF log_entry.success
              THEN Put(Put(d2, "total_requests",
                           Get(session_data, "total_requests", 0) + 1),
                       "successful_requests",
                       Get(session_data, "successful_requests", 0) + 1)
              ELSE d2
    IN Some(d3)

\* _update_session_stats: the session file after the update.
update_session_stats(file, log_entry, t) ==
    LET session_data == IF file # None THEN file[1]
                        ELSE ("session_id" :> get_session_id(file, t).id)
        d1 == Put(session_data, "last_activity", log_entry.timestamp)
        d2 == Put(d1, "total_requests", Get(session_data, "total_requests", 0) + 1)
        d3 == Put(d2, "total_tokens",
                  Get(session_data, "total_tokens", 0) + log_entry.actual_tokens)
        d4 == IF log_entry.success
              THEN Put(d3, "successful_requests",
                       Get(session_data, "successful_requests", 0) + 1)
              ELSE d3
    IN Some(d4)

\* entry.actual_tokens or entry.estimated_tokens
ActualOr(actual, estimated) ==
    IF actual = None \/ actual = Some(0) THEN estimated ELSE actual[1]

\* The line written to the usage log; a failed call carries its error text.
LogEntry(t, estimated, actual, success, sid) ==
    [timestamp |-> t, estimated_tokens |-> estimated,
     actual_tokens |-> ActualOr(actual, estimated),
     success |-> success,
     error |-> IF success THEN None ELSE Some("error"),
     session_id |-> sid]

\* GeminiUsageLogger.log_usage, one writer, no I/O failure.
log_usage(estimated, actual, success) ==
    /\ Len(logger_log) < MaxEvents
    /\ LET sid == get_session_id(session_file, now)
           log_entry == LogEntry(now, estimated, actual, success, sid.id)
       IN /\ logger_log' = Append(logger_log, log_entry)
          /\ session_file' = update_session_stats(sid.file, log_entry, now)
    /\ UNCHANGED <<now, execVars, limits, answer, quotaVars, raceVars>>

\* GeminiUsageLogger.log_usage when one of its two files cannot be written.
\* _get_session_id writes a new session file and log_usage appends to the
\* usage log outside any try; _update_session_stats catches OSError.
log_usage_unwritable(estimated, actual, success, unwritable) ==
    /\ Len(logger_log) < MaxEvents
    /\ LET sid == get_session_id(session_file, now)
           creates == sid.file # session_file
           log_entry == LogEntry(now, estimated, actual, success, sid.id)
           raised == \/ unwritable = "usage_log"
                     \/ (unwritable = "session_file" /\ creates)
       IN /\ session_file' = IF unwritable = "usage_log" THEN sid.file
                             ELSE session_file
          /\ logger_log' = IF raised THEN logger_log
                           ELSE Append(logger_log, log_entry)
          /\ answer' = [op |-> "log_usage", serial |-> 1 - answer.serial,
                        unwritable |-> unwritable,
                        status |-> IF raised THEN "raised" ELSE "returned"]
    /\ UNCHANGED <<now, execVars, limits, quotaVars, raceVars>>

\* ======================================================= GeminiQuotaTracker
RequestTokens == {2}
TaskTokens == {1, 2, 3}

\* Mutant: the counter reset after more than one whole day only.
cleanup_old_data_late(data, t) ==
    LET cutoff == t - 24 * 3600
        requests == SelectSeq(data.requests, LAMBDA req : req.timestamp > cutoff)
    IN IF TimedeltaDays(t - data.last_reset) > 1
       THEN [requests |-> requests, daily_tokens |-> 0, last_reset |-> t]
       ELSE [requests |-> requests, daily_tokens |-> data.daily_tokens,
             last_reset |-> data.last_reset]

\* _cleanup_old_data: requests of the last 24 hours, daily counter reset.
cleanup_old_data(data, t) ==
    LET cutoff == t - 24 * 3600
        requests == SelectSeq(data.requests, LAMBDA req : req.timestamp > cutoff)
    IN IF TimedeltaDays(t - data.last_reset) >= 1
       THEN [requests |-> requests, daily_tokens |-> 0, last_reset |-> t]
       ELSE [requests |-> requests, daily_tokens |-> data.daily_tokens,
             last_reset |-> data.last_reset]

\* _load_usage_data: the usage file cleaned up, or a new structure.
load_usage_data(file, t) ==
    IF file # None
    THEN cleanup_old_data(file[1], t)
    ELSE [requests |-> <<>>, daily_tokens |-> 0, last_reset |-> t]

\* Mutant: the counter raised for a failed request too.
recorded_counts_failures(data, t, estimated_tokens, success) ==
    [data EXCEPT !.requests = Append(@, [timestamp |-> t,
                                         tokens |-> estimated_tokens,
                                         success |-> success]),
                 !.daily_tokens = @ + estimated_tokens]

\* record_request up to the save: the request appended, the counter raised.
recorded(data, t, estimated_tokens, success) ==
    [data EXCEPT !.requests = Append(@, [timestamp |-> t,
                                         tokens |-> estimated_tokens,
                                         success |-> success]),
                 !.daily_tokens = IF success THEN @ + estimated_tokens ELSE @]

\* get_current_usage
get_current_usage(data, t) ==
    LET one_minute_ago == t - SecondsPerMinute
        recent_requests == SelectSeq(data.requests,
                                     LAMBDA req : req.timestamp > one_minute_ago)
    IN [requests_last_minute |-> Len(recent_requests),
        tokens_last_minute |->
            SumSeq([i \in 1..Len(recent_requests) |-> recent_requests[i].tokens]),
        daily_tokens |-> data.daily_tokens,
        requests_today |-> Len(data.requests)]

RateIssue == "Request rate limit reached - wait 1 minute"
TokenRateIssue == "Token rate limit would be exceeded - wait or split task"
DailyIssue == "Daily token quota would be exceeded - wait for reset"

\* Mutant: the per-minute token check denies at the limit, not above it.
CanHandle_tokens_at_limit(usage, lim, estimated_tokens) ==
    IF usage.requests_last_minute >= lim.requests_per_minute - 1
    THEN [can_handle |-> FALSE, issues |-> <<RateIssue>>]
    ELSE IF usage.tokens_last_minute + estimated_tokens >= lim.tokens_per_minute
    THEN [can_handle |-> FALSE, issues |-> <<TokenRateIssue>>]
    ELSE IF usage.daily_tokens + estimated_tokens > lim.tokens_per_day
    THEN [can_handle |-> FALSE, issues |-> <<DailyIssue>>]
    ELSE [can_handle |-> TRUE, issues |-> <<>>]

\* Mutant: the request check denies at the limit, without the margin of one.
CanHandle_no_margin(usage, lim, estimated_tokens) ==
    IF usage.requests_last_minute >= lim.requests_per_minute
    THEN [can_handle |-> FALSE, issues |-> <<RateIssue>>]
    ELSE IF usage.tokens_last_minute + estimated_tokens > lim.tokens_per_minute
    THEN [can_handle |-> FALSE, issues |-> <<TokenRateIssue>>]
    ELSE IF usage.daily_tokens + estimated_tokens > lim.tokens_per_day
    THEN [can_handle |-> FALSE, issues |-> <<DailyIssue>>]
    ELSE [can_handle |-> TRUE, issues |-> <<>>]

\* Mutant: the daily check compares the wrong way round.
CanHandle_daily_inverted(usage, lim, estimated_tokens) ==
    IF usage.requests_last_minute >= lim.requests_per_minute - 1
    THEN [can_handle |-> FALSE, issues |-> <<RateIssue>>]
    ELSE IF usage.tokens_last_minute + estimated_tokens > lim.tokens_per_minute
    THEN [can_handle |-> FALSE, issues |-> <<TokenRateIssue>>]
    ELSE IF usage.daily_tokens + estimated_tokens < lim.tokens_per_day
    THEN [can_handle |-> FALSE, issues |-> <<DailyIssue>>]
    ELSE [can_handle |-> TRUE, issues |-> <<>>]

\* Mutant: the three checks in the opposite order, the daily one first.
CanHandle_daily_first(usage, lim, estimated_tokens) ==
    IF usage.daily_tokens + estimated_tokens > lim.tokens_per_day
    THEN [can_handle |-> FALSE, issues |-> <<DailyIssue>>]
    ELSE IF usage.tokens_last_minute + estimated_tokens > lim.tokens_per_minute
    THEN [can_handle |-> FALSE, issues |-> <<TokenRateIssue>>]
    ELSE IF usage.requests_last_minute >= lim.requests_per_minute - 1
    THEN [can_handle |-> FALSE, issues |-> <<RateIssue>>]
    ELSE [can_handle |-> TRUE, issues |-> <<>>]

\* Mutant: the daily check leaves the task's own tokens out.
CanHandle_daily_without_task(usage, lim, estimated_tokens) ==
    IF usage.requests_last_minute >= lim.requests_per_minute - 1
    THEN [can_handle |-> FALSE, issues |-> <<RateIssue>>]
    ELSE IF usage.tokens_last_minute + estimated_tokens > lim.tokens_per_minute
    THEN [can_handle |-> FALSE, issues |-> <<TokenRateIssue>>]
    ELSE IF usage.daily_tokens > lim.tokens_per_day
    THEN [can_handle |-> FALSE, issues |-> <<DailyIssue>>]
    ELSE [can_handle |-> TRUE, issues |-> <<>>]

\* can_handle_task on a usage: (can_handle, issues)
CanHandle(usage, lim, estimated_tokens) ==
    IF usage.requests_last_minute >= lim.requests_per_minute - 1
    THEN [can_handle |-> FALSE, issues |-> <<RateIssue>>]
    ELSE IF usage.tokens_last_minute + estimated_tokens > lim.tokens_per_minute
    THEN [can_handle |-> FALSE, issues |-> <<TokenRateIssue>>]
    ELSE IF usage.daily_tokens + estimated_tokens > lim.tokens_per_day
    THEN [can_handle |-> FALSE, issues |-> <<DailyIssue>>]
    ELSE [can_handle |-> TRUE, issues |-> <<>>]

\* GeminiQuotaTracker(): the tracker of process p is constructed.
Construct(p) ==
    /\ usage_data' = [usage_data EXCEPT ![p] = Some(load_usage_data(usage_file, now))]
    /\ quota_calls' = 1 - quota_calls
    /\ UNCHANGED <<now, execVars, loggerVars, limits, answer, usage_file, check_result>>

\* record_request of process p, the save included.
RecordRequest(p, estimated_tokens, success) ==
    /\ usage_data[p] # None
    /\ Len(usage_data[p][1].requests) < MaxRequests
    /\ LET data == recorded(usage_data[p][1], now, estimated_tokens, success)
       IN /\ usage_data' = [usage_data EXCEPT ![p] = Some(data)]
          /\ usage_file' = Some(data)
    /\ UNCHANGED <<now, execVars, loggerVars, limits, answer, check_result, quota_calls>>

\* record_request of process p when the usage file cannot be written:
\* _save_usage_data raises after the request was added in memory.
record_request_unwritable(p, estimated_tokens, success) ==
    /\ usage_data[p] # None
    /\ Len(usage_data[p][1].requests) < MaxRequests
    /\ usage_data' = [usage_data EXCEPT
                         ![p] = Some(recorded(@[1], now, estimated_tokens, success))]
    /\ answer' = [op |-> "record_request", serial |-> 1 - answer.serial,
                  unwritable |-> "usage_file", status |-> "raised"]
    /\ UNCHANGED <<now, execVars, loggerVars, limits, usage_file, check_result,
                   quota_calls, raceVars>>

\* can_handle_task of process p.
can_handle_task(p, estimated_tokens) ==
    /\ usage_data[p] # None
    /\ LET usage == get_current_usage(usage_data[p][1], now)
           r == CanHandle(usage, limits, estimated_tokens)
       IN check_result' = [called |-> TRUE, estimated_tokens |-> estimated_tokens,
                           can_handle |-> r.can_handle, issues |-> r.issues]
    /\ quota_calls' = 1 - quota_calls
    /\ UNCHANGED <<now, execVars, loggerVars, limits, answer, usage_file, usage_data, raceVars>>

\* WARN_THRESHOLD = 0.8 and CRITICAL_THRESHOLD = 0.95, as exact fractions.
WARN_THRESHOLD == [num |-> 8, den |-> 10]
CRITICAL_THRESHOLD == [num |-> 95, den |-> 100]

\* actual / limit > threshold, on integers: the float quotient compares with
\* the float threshold as the exact quotient does, the limits being positive
\* and far below 2^52.
Exceeds(actual, limit, threshold) ==
    actual * threshold.den > limit * threshold.num

\* The formatted warnings. The text of a warning is determined by its metric,
\* the actual value and the limit (the percentage it may show is their
\* quotient), so a warning is the record of the three.
format_rpm_warning(usage, lim) ==
    [text |-> "Request rate", current |-> usage.requests_last_minute,
     limit |-> lim.requests_per_minute]

format_tpm_warning(usage, lim) ==
    [text |-> "Token rate", current |-> usage.tokens_last_minute,
     limit |-> lim.tokens_per_minute]

format_daily_tokens_warning(usage, lim) ==
    [text |-> "Daily tokens", current |-> usage.daily_tokens,
     limit |-> lim.tokens_per_day]

format_daily_requests_warning(usage, lim) ==
    [text |-> "Daily requests", current |-> usage.requests_today,
     limit |-> lim.requests_per_day]

RateLimitSoon ==
    [text |-> "IMMEDIATE: Approaching rate limits! Wait or reduce usage."]

DailyQuotaExhausted ==
    [text |-> "CRITICAL: Daily quota nearly exhausted! Large tasks may fail."]

\* Mutant: the daily critical check looks at the tokens only.
QuotaStatus_tokens_only(usage, lim) ==
    LET rpm_warn == Exceeds(usage.requests_last_minute, lim.requests_per_minute,
                            WARN_THRESHOLD)
        tpm_warn == Exceeds(usage.tokens_last_minute, lim.tokens_per_minute,
                            WARN_THRESHOLD)
        daily_tokens_warn == Exceeds(usage.daily_tokens, lim.tokens_per_day,
                                     WARN_THRESHOLD)
        daily_requests_warn == Exceeds(usage.requests_today, lim.requests_per_day,
                                       WARN_THRESHOLD)
        rate_critical ==
            \/ Exceeds(usage.requests_last_minute, lim.requests_per_minute,
                       CRITICAL_THRESHOLD)
            \/ Exceeds(usage.tokens_last_minute, lim.tokens_per_minute,
                       CRITICAL_THRESHOLD)
        daily_critical ==
            Exceeds(usage.daily_tokens, lim.tokens_per_day, CRITICAL_THRESHOLD)
        s1 == IF rpm_warn THEN "[WARNING] High RPM" ELSE "[OK] Healthy"
        s2 == IF tpm_warn /\ s1 = "[OK] Healthy" THEN "[WARNING] High TPM" ELSE s1
        s3 == IF daily_tokens_warn THEN "[WARNING] Daily Token Warning" ELSE s2
        s4 == IF daily_requests_warn THEN "[WARNING] Daily Request Warning" ELSE s3
        s5 == IF rate_critical THEN "[CRITICAL] Rate Limit Soon" ELSE s4
        s6 == IF daily_critical THEN "[CRITICAL] Daily Quota Exhausted" ELSE s5
    IN [status |-> s6,
        warnings |->
            (IF rpm_warn THEN <<format_rpm_warning(usage, lim)>> ELSE <<>>)
            \o (IF tpm_warn THEN <<format_tpm_warning(usage, lim)>> ELSE <<>>)
            \o (IF daily_tokens_warn
                THEN <<format_daily_tokens_warning(usage, lim)>> ELSE <<>>)
            \o (IF daily_requests_warn
                THEN <<format_daily_requests_warning(usage, lim)>> ELSE <<>>)
            \o (IF rate_critical THEN <<RateLimitSoon>> ELSE <<>>)
            \o (IF daily_critical THEN <<DailyQuotaExhausted>> ELSE <<>>)]

\* Mutant: the warning checks fire at the threshold, not above it.
QuotaStatus_warn_at_threshold(usage, lim) ==
    LET AtLeast(actual, limit) ==
            actual * WARN_THRESHOLD.den >= limit * WARN_THRESHOLD.num
        rpm_warn == AtLeast(usage.requests_last_minute, lim.requests_per_minute)
        tpm_warn == AtLeast(usage.tokens_last_minute, lim.tokens_per_minute)
        daily_tokens_warn == AtLeast(usage.daily_tokens, lim.tokens_per_day)
        daily_requests_warn == AtLeast(usage.requests_today, lim.requests_per_day)
        rate_critical ==
            \/ Exceeds(usage.requests_last_minute, lim.requests_per_minute,
                       CRITICAL_THRESHOLD)
            \/ Exceeds(usage.tokens_last_minute, lim.tokens_per_minute,
                       CRITICAL_THRESHOLD)
        daily_critical ==
            \/ Exceeds(usage.daily_tokens, lim.tokens_per_day, CRITICAL_THRESHOLD)
            \/ Exceeds(usage.requests_today, lim.requests_per_day,
                       CRITICAL_THRESHOLD)
        s1 == IF rpm_warn THEN "[WARNING] High RPM" ELSE "[OK] Healthy"
        s2 == IF tpm_warn /\ s1 = "[OK] Healthy" THEN "[WARNING] High TPM" ELSE s1
        s3 == IF daily_tokens_warn THEN "[WARNING] Daily Token Warning" ELSE s2
        s4 == IF daily_requests_warn THEN "[WARNING] Daily Request Warning" ELSE s3
        s5 == IF rate_critical THEN "[CRITICAL] Rate Limit Soon" ELSE s4
        s6 == IF daily_critical THEN "[CRITICAL] Daily Quota Exhausted" ELSE s5
    IN [status |-> s6,
        warnings |->
            (IF rpm_warn THEN <<format_rpm_warning(usage, lim)>> ELSE <<>>)
            \o (IF tpm_warn THEN <<format_tpm_warning(usage, lim)>> ELSE <<>>)
            \o (IF daily_tokens_warn
                THEN <<format_daily_tokens_warning(usage, lim)>> ELSE <<>>)
            \o (IF daily_requests_warn
                THEN <<format_daily_requests_warning(usage, lim)>> ELSE <<>>)
            \o (IF rate_critical THEN <<RateLimitSoon>> ELSE <<>>)
            \o (IF daily_critical THEN <<DailyQuotaExhausted>> ELSE <<>>)]

\* Mutant: the rate check comes after the daily check.
QuotaStatus_rate_last(usage, lim) ==
    LET rpm_warn == Exceeds(usage.requests_last_minute, lim.requests_per_minute,
                            WARN_THRESHOLD)
        tpm_warn == Exceeds(usage.tokens_last_minute, lim.tokens_per_minute,
                            WARN_THRESHOLD)
        daily_tokens_warn == Exceeds(usage.daily_tokens, lim.tokens_per_day,
                                     WARN_THRESHOLD)
        daily_requests_warn == Exceeds(usage.requests_today, lim.requests_per_day,
                                       WARN_THRESHOLD)
        rate_critical ==
            \/ Exceeds(usage.requests_last_minute, lim.requests_per_minute,
                       CRITICAL_THRESHOLD)
            \/ Exceeds(usage.tokens_last_minute, lim.tokens_per_minute,
                       CRITICAL_THRESHOLD)
        daily_critical ==
            \/ Exceeds(usage.daily_tokens, lim.tokens_per_day, CRITICAL_THRESHOLD)
            \/ Exceeds(usage.requests_today, lim.requests_per_day,
                       CRITICAL_THRESHOLD)
        s1 == IF rpm_warn THEN "[WARNING] High RPM" ELSE "[OK] Healthy"
        s2 == IF tpm_warn /\ s1 = "[OK] Healthy" THEN "[WARNING] High TPM" ELSE s1
        s3 == IF daily_tokens_warn THEN "[WARNING] Daily Token Warning" ELSE s2
        s4 == IF daily_requests_warn THEN "[WARNING] Daily Request Warning" ELSE s3
        s5 == IF daily_critical THEN "[CRITICAL] Daily Quota Exhausted" ELSE s4
        s6 == IF rate_critical THEN "[CRITICAL] Rate Limit Soon" ELSE s5
    IN [status |-> s6,
        warnings |->
            (IF rpm_warn THEN <<format_rpm_warning(usage, lim)>> ELSE <<>>)
            \o (IF tpm_warn THEN <<format_tpm_warning(usage, lim)>> ELSE <<>>)
            \o (IF daily_tokens_warn
                THEN <<format_daily_tokens_warning(usage, lim)>> ELSE <<>>)
            \o (IF daily_requests_warn
                THEN <<format_daily_requests_warning(usage, lim)>> ELSE <<>>)
            \o (IF daily_critical THEN <<DailyQuotaExhausted>> ELSE <<>>)
            \o (IF rate_critical THEN <<RateLimitSoon>> ELSE <<>>)]

\* get_quota_status on a usage: (status, warnings). The status is assigned
\* check after check, a later check overwriting an earlier one.
QuotaStatus(usage, lim) ==
    LET rpm_warn == Exceeds(usage.requests_last_minute, lim.requests_per_minute,
                            WARN_THRESHOLD)
        tpm_warn == Exceeds(usage.tokens_last_minute, lim.tokens_per_minute,
                            WARN_THRESHOLD)
        daily_tokens_warn == Exceeds(usage.daily_tokens, lim.tokens_per_day,
                                     WARN_THRESHOLD)
        daily_requests_warn == Exceeds(usage.requests_today, lim.requests_per_day,
                                       WARN_THRESHOLD)
        rate_critical ==
            \/ Exceeds(usage.requests_last_minute, lim.requests_per_minute,
                       CRITICAL_THRESHOLD)
            \/ Exceeds(usage.tokens_last_minute, lim.tokens_per_minute,
                       CRITICAL_THRESHOLD)
        daily_critical ==
            \/ Exceeds(usage.daily_tokens, lim.tokens_per_day, CRITICAL_THRESHOLD)
            \/ Exceeds(usage.requests_today, lim.requests_per_day,
                       CRITICAL_THRESHOLD)
        s1 == IF rpm_warn THEN "[WARNING] High RPM" ELSE "[OK] Healthy"
        s2 == IF tpm_warn /\ s1 = "[OK] Healthy" THEN "[WARNING] High TPM" ELSE s1
        s3 == IF daily_tokens_warn THEN "[WARNING] Daily Token Warning" ELSE s2
        s4 == IF daily_requests_warn THEN "[WARNING] Daily Request Warning" ELSE s3
        s5 == IF rate_critical THEN "[CRITICAL] Rate Limit Soon" ELSE s4
        s6 == IF daily_critical THEN "[CRITICAL] Daily Quota Exhausted" ELSE s5
    IN [status |-> s6,
        warnings |->
            (IF rpm_warn THEN <<format_rpm_warning(usage, lim)>> ELSE <<>>)
            \o (IF tpm_warn THEN <<format_tpm_warning(usage, lim)>> ELSE <<>>)
            \o (IF daily_tokens_warn
                THEN <<format_daily_tokens_warning(usage, lim)>> ELSE <<>>)
            \o (IF daily_requests_warn
                THEN <<format_daily_requests_warning(usage, lim)>> ELSE <<>>)
            \o (IF rate_critical THEN <<RateLimitSoon>> ELSE <<>>)
            \o (IF daily_critical THEN <<DailyQuotaExhausted>> ELSE <<>>)]

\* get_quota_status of process p.
get_quota_status(p) ==
    /\ usage_data[p] # None
    /\ LET r == QuotaStatus(get_current_usage(usage_data[p][1], now), limits)
       IN answer' = [op |-> "get_quota_status", serial |-> 1 - answer.serial,
                     status |-> r.status, warnings |-> r.warnings]
    /\ UNCHANGED <<now, execVars, loggerVars, limits, quotaVars, raceVars>>

\* estimate_task_tokens: what a path adds to total_chars. A file adds its
\* size; a directory the sizes of the files os.walk finds with a counted
\* suffix outside the skipped directories; a path that is neither, is missing
\* or cannot be examined adds nothing (isfile and isdir answer False).
TaskPathChars(p) ==
    CASE PathKind(p) = "file" -> 9
      [] PathKind(p) = "dir" -> 11
      [] OTHER -> 0

\* Mutant: the estimate is rounded up.
EstimateTaskTokens_ceiling(file_paths, prompt_length) ==
    (prompt_length
       + SumSeq([i \in 1..Len(file_paths) |-> TaskPathChars(file_paths[i])])
       + 3) \div 4

\* total_chars // 4
EstimateTaskTokens(file_paths, prompt_length) ==
    (prompt_length
       + SumSeq([i \in 1..Len(file_paths) |-> TaskPathChars(file_paths[i])]))
    \div 4

estimate_task_tokens(file_paths, prompt_length) ==
    /\ answer' = [op |-> "estimate_task_tokens", serial |-> 1 - answer.serial,
                  file_paths |-> file_paths, prompt_length |-> prompt_length,
                  status |-> "returned",
                  tokens |-> EstimateTaskTokens(file_paths, prompt_length)]
    /\ UNCHANGED <<now, execVars, loggerVars, limits, quotaVars, raceVars>>

TaskPaths == {"a.py", "pkg", "missing", "locked"}
TaskFileLists == UNION {[1..n -> TaskPaths] : n \in 0..MaxFiles}
TaskPromptLengths == {7, 100}

\* ------------------------------------------------ one process, one tracker
load(p) == Construct(p) /\ UNCHANGED raceVars

record_request(p, estimated_tokens, success) ==
    RecordRequest(p, estimated_tokens, success) /\ UNCHANGED raceVars

\* ------------------------------------- two processes on the same files
RaceTokens == {2}

NoLocal == [sid |-> 0, tokens |-> 0, data |-> None]

\* A process starts: its tracker loads the usage file.
RaceLoad(p) ==
    /\ pc[p] = "start"
    /\ Construct(p)
    /\ pc' = [pc EXCEPT ![p] = "loaded"]
    /\ UNCHANGED sess_local

\* It records its request in the usage file.
RaceRecord(p, estimated_tokens) ==
    /\ pc[p] = "loaded"
    /\ RecordRequest(p, estimated_tokens, TRUE)
    /\ pc' = [pc EXCEPT ![p] = "recorded"]
    /\ sess_local' = [sess_local EXCEPT ![p] = [NoLocal EXCEPT !.tokens = estimated_tokens]]

\* log_usage: the log entry is built, _get_session_id reads the session file.
RaceSessionId(p) ==
    /\ pc[p] = "recorded"
    /\ LET sid == get_session_id(session_file, now)
       IN /\ session_file' = sid.file
          /\ sess_local' = [sess_local EXCEPT ![p].sid = sid.id]
    /\ pc' = [pc EXCEPT ![p] = "built"]
    /\ UNCHANGED <<now, execVars, logger_log, limits, answer, quotaVars>>

\* log_usage: the line is appended to the usage log (one write in append mode).
RaceAppend(p) ==
    /\ pc[p] = "built"
    /\ logger_log' = Append(logger_log,
                            LogEntry(now, sess_local[p].tokens, None, TRUE,
                                     sess_local[p].sid))
    /\ pc' = [pc EXCEPT ![p] = "appended"]
    /\ UNCHANGED <<now, execVars, session_file, limits, answer, quotaVars, sess_local>>

\* _update_session_stats: the session file is read.
RaceReadSession(p) ==
    /\ pc[p] = "appended"
    /\ sess_local' = [sess_local EXCEPT ![p].data = session_file]
    /\ pc' = [pc EXCEPT ![p] = "read"]
    /\ UNCHANGED <<now, execVars, loggerVars, limits, answer, quotaVars>>

\* _update_session_stats: the updated session data is written.
RaceWriteSession(p) ==
    /\ pc[p] = "read"
    /\ session_file' = update_session_stats(
                           sess_local[p].data,
                           LogEntry(now, sess_local[p].tokens, None, TRUE,
                                    sess_local[p].sid),
                           now)
    /\ pc' = [pc EXCEPT ![p] = "done"]
    /\ UNCHANGED <<now, execVars, logger_log, limits, answer, quotaVars, sess_local>>

\* ===================================================== initial state, specs
LimitChoices ==
    {[requests_per_minute |-> 2, requests_per_day |-> 3,
      tokens_per_minute |-> 4, tokens_per_day |-> 5],
     [requests_per_minute |-> 3, requests_per_day |-> 3,
      tokens_per_minute |-> 4, tokens_per_day |-> 6]}

NoAnswer == [op |-> "none", serial |-> 0]

NoCheck == [called |-> FALSE, estimated_tokens |-> 0,
            can_handle |-> FALSE, issues |-> <<>>]

Init ==
    /\ now = 0
    /\ SERVICES = DefaultServices
    /\ exec_log = <<>>
    /\ exec_call = NoCall
    /\ exec_result = NoResult
    /\ exec_calls = 0
    /\ logger_log = <<>>
    /\ session_file = None
    /\ limits \in LimitChoices
    /\ usage_file = None
    /\ usage_data = [p \in Procs |-> None]
    /\ check_result = NoCheck
    /\ quota_calls = 0
    /\ answer = NoAnswer
    /\ pc = [p \in Procs |-> "start"]
    /\ sess_local = [p \in Procs |-> NoLocal]

\* Delegator.execute, called again and again.
Next ==
    \/ \E s \in ServiceNames, f \in FileLists, n \in PromptLengths,
          rc \in ReturnCodes, ok \in BOOLEAN : ExecuteCompleted(s, f, n, rc, ok)
    \/ \E s \in ServiceNames : ExecuteTimedOut(s)
    \/ \E s \in ServiceNames : ExecuteLaunchFailed(s)
    \/ \E s \in ServiceNames : ExecuteUnknownService(s)

Spec == Init /\ [][Next]_vars

\* GeminiUsageLogger.log_usage, called again and again by one writer.
NextLogger ==
    \/ \E e \in EstimatedTokens, a \in ActualTokens, s \in BOOLEAN : log_usage(e, a, s)
    \/ Tick(LoggerInstants)

SpecLogger == Init /\ [][NextLogger]_vars

\* One GeminiQuotaTracker process: constructed (again after a restart),
\* recording requests and asking can_handle_task.
NextQuota ==
    \/ load(1)
    \/ \E e \in RequestTokens, s \in BOOLEAN : record_request(1, e, s)
    \/ \E e \in TaskTokens : can_handle_task(1, e)
    \/ Tick(QuotaInstants)

SpecQuota == Init /\ [][NextQuota]_vars

\* One tracker whose caller records a request only after can_handle_task
\* allowed it. The daily request limit is within reach of a few requests.
AdmitLimitChoices ==
    {[requests_per_minute |-> 2, requests_per_day |-> 2,
      tokens_per_minute |-> 4, tokens_per_day |-> 5],
     [requests_per_minute |-> 3, requests_per_day |-> 2,
      tokens_per_minute |-> 4, tokens_per_day |-> 6]}

AdmitTokens == {2, 3}
AdmitInstants == {0, 59, 60, 86400}

\* record_request of process p by a caller that asked can_handle_task first:
\* the request recorded is the one the last answer allowed, and the answer
\* is used up by it.
admitted_record_request(p, success) ==
    /\ check_result.called
    /\ check_result.can_handle
    /\ usage_data[p] # None
    /\ Len(usage_data[p][1].requests) < MaxRequests
    /\ LET data == recorded(usage_data[p][1], now,
                            check_result.estimated_tokens, success)
       IN /\ usage_data' = [usage_data EXCEPT ![p] = Some(data)]
          /\ usage_file' = Some(data)
    /\ check_result' = NoCheck
    /\ UNCHANGED <<now, execVars, loggerVars, limits, answer, quota_calls, raceVars>>

InitAdmit ==
    /\ now = 0
    /\ SERVICES = DefaultServices
    /\ exec_log = <<>>
    /\ exec_call = NoCall
    /\ exec_result = NoResult
    /\ exec_calls = 0
    /\ logger_log = <<>>
    /\ session_file = None
    /\ limits \in AdmitLimitChoices
    /\ usage_file = None
    /\ usage_data = [p \in Procs |-> None]
    /\ check_result = NoCheck
    /\ quota_calls = 0
    /\ answer = NoAnswer
    /\ pc = [p \in Procs |-> "start"]
    /\ sess_local = [p \in Procs |-> NoLocal]

NextAdmit ==
    \/ load(1)
    \/ \E e \in AdmitTokens : can_handle_task(1, e)
    \/ \E s \in BOOLEAN : admitted_record_request(1, s)
    \/ Tick(AdmitInstants)

SpecAdmit == InitAdmit /\ [][NextAdmit]_vars

\* One tracker whose status is asked for between requests. The limits are
\* small enough for a few requests to cross both thresholds, or the daily
\* limits of a million tokens.
StatusLimitChoices ==
    {[requests_per_minute |-> 3, requests_per_day |-> 3,
      tokens_per_minute |-> 20, tokens_per_day |-> 25],
     [requests_per_minute |-> 3, requests_per_day |-> 4,
      tokens_per_minute |-> 1000000, tokens_per_day |-> 1000000]}

StatusTokens == {1, 8, 9, 950000}
StatusInstants == {0, 60}

InitStatus ==
    /\ now = 0
    /\ SERVICES = DefaultServices
    /\ exec_log = <<>>
    /\ exec_call = NoCall
    /\ exec_result = NoResult
    /\ exec_calls = 0
    /\ logger_log = <<>>
    /\ session_file = None
    /\ limits \in StatusLimitChoices
    /\ usage_file = None
    /\ usage_data = [p \in Procs |-> None]
    /\ check_result = NoCheck
    /\ quota_calls = 0
    /\ answer = NoAnswer
    /\ pc = [p \in Procs |-> "start"]
    /\ sess_local = [p \in Procs |-> NoLocal]

NextStatus ==
    \/ load(1)
    \/ \E e \in StatusTokens : record_request(1, e, TRUE)
    \/ get_quota_status(1)
    \/ Tick(StatusInstants)

SpecStatus == InitStatus /\ [][NextStatus]_vars

\* Two processes, each recording one request and logging one usage event.
NextRace ==
    \/ \E p \in Procs : RaceLoad(p)
    \/ \E p \in Procs, e \in RaceTokens : RaceRecord(p, e)
    \/ \E p \in Procs : RaceSessionId(p)
    \/ \E p \in Procs : RaceAppend(p)
    \/ \E p \in Procs : RaceReadSession(p)
    \/ \E p \in Procs : RaceWriteSession(p)

SpecRace == Init /\ [][NextRace]_vars

\* ---------------------------------------------------------- usage summaries
SecondsPerHour == 3600

\* successful / total * 100 as an exact fraction, 0 when nothing was counted.
Rate(successful, total) ==
    IF total > 0 THEN [num |-> successful * 100, den |-> total]
    ELSE [num |-> 0, den |-> 1]

\* Mutant: only the successful entries are counted as requests.
LoggerSummary_successful_only(log, t, hours) ==
    IF log = <<>>
    THEN [total_requests |-> 0, total_tokens |-> 0, success_rate |-> Rate(0, 0)]
    ELSE LET cutoff_time == t - hours * SecondsPerHour
             counted == SelectSeq(log, LAMBDA entry :
                                      entry.timestamp >= cutoff_time /\ entry.success)
             successful == SelectSeq(counted, LAMBDA entry : entry.success)
         IN [total_requests |-> Len(counted),
             total_tokens |->
                 SumSeq([i \in 1..Len(counted) |-> counted[i].actual_tokens]),
             successful_requests |-> Len(successful),
             success_rate |-> Rate(Len(successful), Len(counted)),
             hours_analyzed |-> hours]

\* GeminiUsageLogger.get_usage_summary at time t on a usage log; the log file
\* exists once an entry was appended.
LoggerSummary(log, t, hours) ==
    IF log = <<>>
    THEN [total_requests |-> 0, total_tokens |-> 0, success_rate |-> Rate(0, 0)]
    ELSE LET cutoff_time == t - hours * SecondsPerHour
             counted == SelectSeq(log, LAMBDA entry :
                                      entry.timestamp >= cutoff_time)
             successful == SelectSeq(counted, LAMBDA entry : entry.success)
         IN [total_requests |-> Len(counted),
             total_tokens |->
                 SumSeq([i \in 1..Len(counted) |-> counted[i].actual_tokens]),
             successful_requests |-> Len(successful),
             success_rate |-> Rate(Len(successful), Len(counted)),
             hours_analyzed |-> hours]

\* _update_service_stats and _calculate_rates over the counted entries of one
\* service (durations are not part of the model).
ServiceStats(entries) ==
    LET successful == SelectSeq(entries, LAMBDA entry : entry.success)
    IN [requests |-> Len(entries),
        successful |-> Len(successful),
        tokens_used |->
            SumSeq([i \in 1..Len(entries) |-> entries[i].tokens_used[1]]),
        success_rate |-> Rate(Len(successful), Len(entries))]

\* Delegator.get_usage_summary at time t on a usage log. An entry logged
\* without a token count (tokens_used: null) cannot be added up: TypeError.
DelegatorSummary(log, t, days) ==
    IF log = <<>>
    THEN [total_requests |-> 0, success_rate |-> Rate(0, 0), services |-> <<>>]
    ELSE IF \E i \in 1..Len(log) : /\ log[i].timestamp >= t - days * SecondsPerDay
                                    /\ log[i].tokens_used = None
    THEN [raised |-> "TypeError"]
    ELSE LET cutoff_time == t - days * SecondsPerDay
             counted == SelectSeq(log, LAMBDA entry :
                                      entry.timestamp >= cutoff_time)
             successful == SelectSeq(counted, LAMBDA entry : entry.success)
             named == {counted[i].service : i \in 1..Len(counted)}
         IN [total_requests |-> Len(counted),
             successful_requests |-> Len(successful),
             services |->
                 [service \in named |->
                     ServiceStats(SelectSeq(counted, LAMBDA entry :
                                                entry.service = service))],
             success_rate |-> Rate(Len(successful), Len(counted))]

logger_get_usage_summary(hours) ==
    /\ answer' = [op |-> "GeminiUsageLogger.get_usage_summary",
                  serial |-> 1 - answer.serial, window |-> hours * SecondsPerHour,
                  summary |-> LoggerSummary(logger_log, now, hours)]
    /\ UNCHANGED <<now, execVars, loggerVars, limits, quotaVars, raceVars>>

delegator_get_usage_summary(days) ==
    /\ answer' = [op |-> "Delegator.get_usage_summary",
                  serial |-> 1 - answer.serial, window |-> days * SecondsPerDay,
                  summary |-> DelegatorSummary(exec_log, now, days)]
    /\ UNCHANGED <<now, execVars, loggerVars, limits, quotaVars, raceVars>>

\* GeminiUsageLogger.get_recent_errors: the last count failed entries that
\* carry an error text; errors[-count:] is the whole list for count = 0.
RecentErrors(log, count) ==
    LET errors == SelectSeq(log, LAMBDA entry :
                                ~entry.success /\ entry.error # None)
    IN IF count = 0 \/ count >= Len(errors) THEN errors
       ELSE SubSeq(errors, Len(errors) - count + 1, Len(errors))

logger_get_recent_errors(count) ==
    /\ answer' = [op |-> "GeminiUsageLogger.get_recent_errors",
                  serial |-> 1 - answer.serial, count |-> count,
                  errors |-> RecentErrors(logger_log, count)]
    /\ UNCHANGED <<now, execVars, loggerVars, limits, quotaVars, raceVars>>

ErrorCounts == {1, 5}
SummaryHours == {1, 24}
SummaryDays == {1, 7}
LoggerSummaryInstants == {0, 3600, 3601}
DelegatorSummaryInstants == {0, 86400, 86401}

\* Events are appended and summaries asked for as time passes, in a run of
\* the logger or in a run of the Delegator.
NextSummary ==
    \/ /\ exec_calls = 0
       /\ answer.op # "Delegator.get_usage_summary"
       /\ \/ \E ok \in BOOLEAN : log_usage(2, Some(3), ok)
          \/ \E h \in SummaryHours : logger_get_usage_summary(h)
          \/ \E count \in ErrorCounts : logger_get_recent_errors(count)
          \/ Tick(LoggerSummaryInstants)
    \/ /\ logger_log = <<>>
       /\ session_file = None
       /\ answer.op \notin {"GeminiUsageLogger.get_usage_summary",
                            "GeminiUsageLogger.get_recent_errors"}
       /\ \/ \E rc \in ReturnCodes : ExecuteCompleted("gemini", <<>>, 8, rc, TRUE)
          \/ ExecuteTimedOut("gemini")
          \/ \E d \in SummaryDays : delegator_get_usage_summary(d)
          \/ Tick(DelegatorSummaryInstants)

SpecSummary == Init /\ [][NextSummary]_vars

\* The Delegator constructed again and again over configuration files.
NextConfig == \E config \in ConfigChoices : load_configurations(config)

SpecConfig == Init /\ [][NextConfig]_vars

\* A Delegator, constructed over a configuration that may add a user's
\* service; a run verifies services or delegates.
NextSelect ==
    \/ /\ exec_calls = 0
       /\ load_configurations(ServicesConfig(<<LocalService>>))
    \/ /\ exec_calls = 0
       /\ answer.op # "smart_delegate"
       /\ \E name \in ServiceNames \cup {"local"}, env \in Environments :
             verify_service(name, env)
    \/ /\ answer.op # "verify_service"
       /\ \E requirements \in RequirementChoices, world \in Worlds :
             smart_delegate(requirements, world, 0)

SpecSelect == Init /\ [][NextSelect]_vars

\* The operations that look at the paths they are given.
NextFiles ==
    \/ \E name \in ServiceNames, prompt \in Prompts, files \in CommandFileLists,
          options \in OptionChoices :
          build_command(name, prompt, files, options)
    \/ \E file_paths \in TaskFileLists, prompt_length \in TaskPromptLengths :
          estimate_task_tokens(file_paths, prompt_length)
    \/ \E files \in TaskFileLists, prompt_len \in TaskPromptLengths :
          delegator_estimate_tokens(files, prompt_len)

SpecFiles == Init /\ [][NextFiles]_vars

\* The three tools keep their files apart; a run uses one of them.
LoggerUnused == logger_log = <<>> /\ session_file = None /\ answer.op # "log_usage"
QuotaUnused ==
    /\ usage_file = None
    /\ \A p \in Procs : usage_data[p] = None
    /\ answer.op # "record_request"
DelegatorUnused == exec_calls = 0

\* The three operations that append a usage event, with files that can and
\* files that cannot be written.
NextIO ==
    \/ /\ QuotaUnused /\ DelegatorUnused
       /\ \/ \E s \in BOOLEAN : log_usage(2, None, s)
          \/ \E s \in BOOLEAN, f \in {"usage_log", "session_file"} :
                log_usage_unwritable(2, None, s, f)
    \/ /\ LoggerUnused /\ DelegatorUnused
       /\ \/ load(1)
          \/ \E s \in BOOLEAN : record_request(1, 2, s)
          \/ \E s \in BOOLEAN : record_request_unwritable(1, 2, s)
    \/ /\ LoggerUnused /\ QuotaUnused
       /\ \E rc \in ReturnCodes, ok \in BOOLEAN :
             ExecuteCompleted("gemini", <<>>, 8, rc, ok)

SpecIO == Init /\ [][NextIO]_vars

\* ================================================================== claims
Registered(call) == call.service \in DOMAIN SERVICES

\* C1: every call of execute for a registered service appends exactly one
\* entry to the usage log, whatever the child did (exit 0, exit non-zero,
\* not launched, timed out), the log being writable.
C1_EveryCallLogsOnce ==
    [][(exec_calls' = exec_calls + 1 /\ Registered(exec_call') /\ exec_call'.io_ok)
        => Len(exec_log') = Len(exec_log) + 1]_vars

\* The three deny conditions of the quota check, on a usage.
RateDenied(u) == u.requests_last_minute >= limits.requests_per_minute - 1
TokenRateDenied(u, e) == u.tokens_last_minute + e > limits.tokens_per_minute
DailyDenied(u, e) == u.daily_tokens + e > limits.tokens_per_day

\* C2: can_handle_task(e) answers allowed = false exactly when, for the
\* current usage, at least one of the three deny conditions holds.
C2_DeniedIffSomeCondition ==
    [][\A e \in TaskTokens :
          can_handle_task(1, e) =>
              LET u == get_current_usage(usage_data[1][1], now)
              IN (check_result'.can_handle = FALSE)
                 <=> (RateDenied(u) \/ TokenRateDenied(u, e) \/ DailyDenied(u, e))]_vars

C2_Witness ==
    /\ check_result.called
    /\ ~check_result.can_handle
    /\ check_result.issues = <<DailyIssue>>

\* The number of requests recorded in the minute before t.
RecordedLastMinute(data, t) ==
    Cardinality({i \in 1..Len(data.requests) :
                    t - data.requests[i].timestamp < SecondsPerMinute})

\* The request of e tokens exceeds neither token budget.
TokensFit(data, t, e) ==
    LET u == get_current_usage(data, t)
    IN ~TokenRateDenied(u, e) /\ ~DailyDenied(u, e)

C4_TimeoutResult ==
    (Registered(exec_call) /\ exec_call.env = "timeout")
        => /\ exec_result.status = "returned"
           /\ exec_result.success = FALSE
           /\ exec_result.exit_code = 124

C4_Witness ==
    /\ exec_call.env = "timeout"
    /\ exec_result.exit_code = 124
    /\ exec_result.status = "returned"

\* C5: for a registered service execute never raises; success is true exactly
\* when the child exited with 0; a non-zero exit gives success = false with
\* the child's exit code and stderr, a launch failure success = false with
\* the error text; the outcome is one of Succeeded, Failed, TimedOut.
Succeeded(r) == r.success
TimedOut(r) == ~r.success /\ r.stderr = "Command timed out"
Failed(r) == ~r.success /\ r.stderr # "Command timed out"

Gap(i) == logger_log[i + 1].timestamp - logger_log[i].timestamp

SameSession(i) == logger_log[i + 1].session_id = logger_log[i].session_id

\* C6: two consecutive logged events more than 3600 seconds apart have
\* different session ids, for every such gap.
C6_NewSessionAfterTimeout ==
    \A i \in 1..(Len(logger_log) - 1) : Gap(i) > 3600 => ~SameSession(i)

EntriesOfSession(sid) ==
    Cardinality({i \in 1..Len(logger_log) : logger_log[i].session_id = sid})

C8_TotalRequestsCountsEntries ==
    IF session_file = None
    THEN logger_log = <<>>
    ELSE Get(session_file[1], "total_requests", 0)
            = EntriesOfSession(session_file[1]["session_id"])

C8_Witness ==
    /\ session_file # None
    /\ Get(session_file[1], "total_requests", 0) = 2
    /\ Len(logger_log) = 3
    /\ \E i \in 1..Len(logger_log) : ~logger_log[i].success

\* C9: when the usage data is loaded from the file, daily_tokens becomes 0
\* and last_reset the current time, both, if at least 24 hours have passed
\* since last_reset; otherwise both stay as stored.
C9_DailyResetOnLoad ==
    [][(load(1) /\ usage_file # None) =>
          LET stored == usage_file[1]
              loaded == usage_data'[1][1]
          IN IF now - stored.last_reset >= 24 * 3600
             THEN loaded.daily_tokens = 0 /\ loaded.last_reset = now
             ELSE /\ loaded.daily_tokens = stored.daily_tokens
                  /\ loaded.last_reset = stored.last_reset]_vars

C9_Witness ==
    /\ usage_file # None
    /\ usage_data[1] # None
    /\ usage_file[1].daily_tokens > 0
    /\ now - usage_file[1].last_reset >= 24 * 3600
    /\ usage_data[1][1].daily_tokens = 0
    /\ usage_data[1][1].last_reset = now

\* C10: after two processes have each recorded one usage event against the
\* same files, both requests are in the usage file, both entries in the
\* usage log and the session counters count both.
C10_BothEventsStored ==
    (\A p \in Procs : pc[p] = "done")
        => /\ Len(usage_file[1].requests) = 2
           /\ Len(logger_log) = 2
           /\ Get(session_file[1], "total_requests", 0) = 2

\* C11: appending a usage event never fails the caller: when the usage log,
\* the usage file or the session file cannot be written, log_usage,
\* record_request and Delegator.log_usage return without raising.
C11_AppendNeverRaises ==
    /\ answer.op \in {"log_usage", "record_request"} => answer.status = "returned"
    /\ (exec_call.env = "exited" /\ ~exec_call.io_ok)
          => exec_result.status = "returned"

\* What can_handle_task(e) answers in the current state of process 1.
Allowed(e) ==
    CanHandle(get_current_usage(usage_data[1][1], now), limits, e).can_handle

\* C12: for a fixed usage and fixed limits can_handle_task is monotone in the
\* estimated tokens: a denied request stays denied for every larger estimate,
\* an allowed request stays allowed for every smaller one.
C12_MonotoneDenial ==
    usage_data[1] # None =>
        \A t1 \in TaskTokens, t2 \in TaskTokens :
            t1 <= t2 => /\ (~Allowed(t1) => ~Allowed(t2))
                        /\ (Allowed(t2) => Allowed(t1))

C12_Witness ==
    /\ usage_data[1] # None
    /\ check_result.called
    /\ ~check_result.can_handle
    /\ check_result.issues = <<TokenRateIssue>>
    /\ ~Allowed(check_result.estimated_tokens)
    /\ \E t \in TaskTokens : t < check_result.estimated_tokens /\ Allowed(t)

\* The level a status line announces.
Level(status) ==
    IF status \in {"[CRITICAL] Rate Limit Soon", "[CRITICAL] Daily Quota Exhausted"}
    THEN "critical"
    ELSE IF status = "[OK] Healthy" THEN "healthy" ELSE "warning"

Contains(seq, x) == \E i \in 1..Len(seq) : seq[i] = x

\* The usage get_quota_status of process 1 reads in the current state.
CurrentUsage == get_current_usage(usage_data[1][1], now)

DailyTokensOver(threshold) ==
    Exceeds(CurrentUsage.daily_tokens, limits.tokens_per_day, threshold)

DailyRequestsOver(threshold) ==
    Exceeds(CurrentUsage.requests_today, limits.requests_per_day, threshold)

\* C13: whenever a daily ratio (daily tokens or requests today over its limit)
\* exceeds 0.95, get_quota_status answers a critical level and its warnings
\* hold the daily-quota-nearly-exhausted message and the formatted daily
\* warning of that metric.
C13_DailyCritical ==
    [][get_quota_status(1) =>
          /\ (DailyTokensOver(CRITICAL_THRESHOLD) =>
                 /\ Level(answer'.status) = "critical"
                 /\ Contains(answer'.warnings, DailyQuotaExhausted)
                 /\ Contains(answer'.warnings,
                             format_daily_tokens_warning(CurrentUsage, limits)))
          /\ (DailyRequestsOver(CRITICAL_THRESHOLD) =>
                 /\ Level(answer'.status) = "critical"
                 /\ Contains(answer'.warnings, DailyQuotaExhausted)
                 /\ Contains(answer'.warnings,
                             format_daily_requests_warning(CurrentUsage, limits)))
      ]_vars

\* The example of the specification: 950,001 of 1,000,000 daily tokens.
C13_Witness ==
    /\ answer.op = "get_quota_status"
    /\ usage_data[1] # None
    /\ limits.tokens_per_day = 1000000
    /\ CurrentUsage.daily_tokens = 950001
    /\ ~DailyRequestsOver(CRITICAL_THRESHOLD)
    /\ answer.status = "[CRITICAL] Daily Quota Exhausted"
    /\ Contains(answer.warnings, DailyQuotaExhausted)
    /\ Contains(answer.warnings, [text |-> "Daily tokens", current |-> 950001,
                                  limit |-> 1000000])

AllRatiosAtMostWarn ==
    /\ ~Exceeds(CurrentUsage.requests_last_minute, limits.requests_per_minute,
                WARN_THRESHOLD)
    /\ ~Exceeds(CurrentUsage.tokens_last_minute, limits.tokens_per_minute,
                WARN_THRESHOLD)
    /\ ~DailyTokensOver(WARN_THRESHOLD)
    /\ ~DailyRequestsOver(WARN_THRESHOLD)

\* C14: get_quota_status answers the healthy level with no warning if and
\* only if each of the four ratios is at most 0.8.
C14_HealthyIffAllLow ==
    [][get_quota_status(1) =>
          /\ (Level(answer'.status) = "healthy" /\ answer'.warnings = <<>>)
                <=> AllRatiosAtMostWarn
          /\ Level(answer'.status) = "healthy" <=> answer'.warnings = <<>>
      ]_vars

\* Healthy at a ratio of exactly 0.8: 16 of 20 tokens in the last minute.
C14_Witness ==
    /\ answer.op = "get_quota_status"
    /\ usage_data[1] # None
    /\ limits.tokens_per_minute = 20
    /\ CurrentUsage.tokens_last_minute = 16
    /\ answer.status = "[OK] Healthy"
    /\ answer.warnings = <<>>

\* Every entry of the log was appended within the window before now.
AllWithin(log, window) ==
    \A i \in 1..Len(log) : log[i].timestamp >= now - window

Successes(log) == Cardinality({i \in 1..Len(log) : log[i].success})

\* C15: when every appended usage event lies within the summary window,
\* get_usage_summary (of the logger, of the Delegator) returns total_requests
\* equal to the number of appended events and successful_requests equal to
\* the number of them that succeeded; with no event it returns zero totals.
C15_SummaryCountsEvents ==
    [][/\ \A h \in SummaryHours :
             logger_get_usage_summary(h) =>
                 /\ logger_log = <<>> =>
                        /\ answer'.summary.total_requests = 0
                        /\ answer'.summary.total_tokens = 0
                 /\ (logger_log # <<>> /\ AllWithin(logger_log, h * SecondsPerHour)) =>
                        /\ answer'.summary.total_requests = Len(logger_log)
                        /\ answer'.summary.successful_requests = Successes(logger_log)
       /\ \A d \in SummaryDays :
             delegator_get_usage_summary(d) =>
                 /\ exec_log = <<>> =>
                        /\ answer'.summary.total_requests = 0
                        /\ answer'.summary.services = <<>>
                 /\ (exec_log # <<>> /\ AllWithin(exec_log, d * SecondsPerDay)) =>
                        /\ answer'.summary.total_requests = Len(exec_log)
                        /\ answer'.summary.successful_requests = Successes(exec_log)
      ]_vars

\* A summary over three events, two of them successful, the oldest exactly
\* one window old.
C15_Witness ==
    /\ answer.op = "GeminiUsageLogger.get_usage_summary"
    /\ answer.window = SecondsPerHour
    /\ now = 3600
    /\ Len(logger_log) = 3
    /\ logger_log[1].timestamp = 0
    /\ Successes(logger_log) = 2
    /\ answer.summary.total_requests = 3
    /\ answer.summary.successful_requests = 2

\* The configuration file is malformed: it is not JSON, or an entry for a new
\* service cannot be made a ServiceConfig.
Malformed(config) ==
    \/ config.kind = "invalid_json"
    \/ \E i \in 1..Len(config.entries) :
          /\ config.entries[i].key \notin DOMAIN SERVICES
          /\ ~Constructible(config.entries[i].fields)

\* C19: loading a malformed configuration raises nothing and leaves the
\* service registry as it was before load_configurations, no override being
\* partially applied.
C19_MalformedLeavesRegistry ==
    [][(NextConfig /\ Malformed(answer'.config)) =>
          /\ answer'.status = "returned"
          /\ SERVICES' = SERVICES
      ]_vars

\* Every entry of the file can be merged.
WellFormed(config) ==
    /\ config.kind = "services"
    /\ \A i \in 1..Len(config.entries) :
          \/ config.entries[i].key \in DOMAIN SERVICES
          \/ Constructible(config.entries[i].fields)

Named(config) == {config.entries[i].key : i \in 1..Len(config.entries)}

\* C20: load_configurations merges the overrides: for a known service each
\* field given (command, auth_method, auth_env_var, quota_limits) replaces the
\* current value, each field not given and the name keep theirs; an unknown
\* name is added as a new service; services not named are unchanged.
C20_MergeOverrides ==
    [][(NextConfig /\ WellFormed(answer'.config)) =>
          LET config == answer'.config
          IN /\ DOMAIN SERVICES' = DOMAIN SERVICES \cup Named(config)
             /\ \A i \in 1..Len(config.entries) :
                   LET key == config.entries[i].key
                       given == config.entries[i].fields
                   IN IF key \in DOMAIN SERVICES
                      THEN /\ SERVICES'[key].name = SERVICES[key].name
                           /\ \A f \in ServiceConfigFields \ {"name"} :
                                 SERVICES'[key][f] =
                                     IF f \in DOMAIN given THEN given[f]
                                     ELSE SERVICES[key][f]
                      ELSE \A f \in DOMAIN given : SERVICES'[key][f] = given[f]
             /\ \A name \in DOMAIN SERVICES \ Named(config) :
                   SERVICES'[name] = SERVICES[name]
      ]_vars

\* An override that names only some fields of gemini and tries to rename it,
\* together with a new service.
C20_Witness ==
    /\ answer.op = "load_configurations"
    /\ answer.config = ServicesConfig(<<GeminiRenamed, LocalService>>)
    /\ SERVICES["gemini"].name = "gemini"
    /\ SERVICES["gemini"].command = "gemini"
    /\ SERVICES["gemini"].auth_env_var = Some("GOOGLE_API_KEY")
    /\ "local" \in DOMAIN SERVICES
    /\ SERVICES["local"].command = "local-llm"
    /\ SERVICES["qwen"] = DefaultServices["qwen"]

\* No registered service passes verification in the world.
NonePasses(world) ==
    \A name \in DOMAIN SERVICES : ~VerifyService(SERVICES, name, world[name]).ready

\* C16: when no service passes verification, smart_delegate fails with the
\* no-service-available error and executes no delegation, whatever the
\* requirements.
C16_NoServiceNoExecution ==
    [][\A requirements \in RequirementChoices, world \in Worlds :
          (smart_delegate(requirements, world, 0) /\ NonePasses(world)) =>
              /\ answer'.status = "raised"
              /\ answer'.error = NoServiceError
              /\ UNCHANGED <<exec_calls, exec_log, exec_result>>
      ]_vars

\* The registry in its order: the two built-in services, then the services a
\* configuration added.
RegistryOrder ==
    <<"gemini", "qwen">> \o (IF "local" \in DOMAIN SERVICES THEN <<"local">> ELSE <<>>)

Passing(world) ==
    SelectSeq(RegistryOrder,
              LAMBDA name : VerifyService(SERVICES, name, world[name]).ready)

\* The preference order as stated; "" when nothing can be selected.
Preferred(requirements, world) ==
    IF requirements.large_context /\ requirements.gemini_available THEN "gemini"
    ELSE IF requirements.code_execution /\ requirements.qwen_available THEN "qwen"
    ELSE IF requirements.fast_response THEN "gemini"
    ELSE IF Passing(world) # <<>> THEN Head(Passing(world))
    ELSE ""

\* C17: smart_delegate selects by the preference order: large context with
\* gemini available selects gemini; else code execution with qwen available
\* selects qwen; else fast response selects gemini; else the first service of
\* the registry, services of the user's configuration included, that passes
\* verify_service.
C17_PreferenceOrder ==
    [][\A requirements \in RequirementChoices, world \in Worlds :
          smart_delegate(requirements, world, 0) =>
              IF Preferred(requirements, world) = ""
              THEN answer'.status = "raised"
              ELSE /\ answer'.status = "returned"
                   /\ answer'.service = Preferred(requirements, world)
      ]_vars

\* C18: verify_service of a registered service never raises and collects its
\* issues: a failed version probe adds an issue and the authentication check
\* still runs; api_key authentication adds an issue when the environment
\* variable is empty; cli authentication adds an issue when the auth-status
\* probe exits non-zero or throws; ready holds exactly when there is no issue.
C18_VerifyCollectsIssues ==
    [][\A name \in ServiceNames \cup {"local"}, env \in Environments :
          (verify_service(name, env) /\ name \in DOMAIN SERVICES) =>
              LET service == SERVICES[name]
                  result == answer'.result
              IN /\ result.status = "returned"
                 /\ env.version # "ok" => Contains(result.issues, CommandIssue)
                 /\ (/\ service.auth_method = "api_key"
                     /\ service.auth_env_var # None
                     /\ ~env.env_var_set) => Contains(result.issues, EnvVarIssue)
                 /\ (service.auth_method = "cli" /\ env.auth = "nonzero_exit") =>
                        Contains(result.issues, NotAuthenticatedIssue)
                 /\ (service.auth_method = "cli" /\ env.auth = "throws") =>
                        Contains(result.issues, AuthStatusIssue)
                 /\ result.ready <=> result.issues = <<>>
      ]_vars

IsPrefix(s, t) == Len(s) <= Len(t) /\ SubSeq(t, 1, Len(s)) = s

\* C21: the usage logs are append-only: across every operation (log_usage,
\* execute, get_usage_summary, get_recent_errors) the log before is a prefix
\* of the log after, no written entry being changed or removed.
C21_LogsAppendOnly ==
    [][IsPrefix(logger_log, logger_log') /\ IsPrefix(exec_log, exec_log')]_vars

\* After two appended entries both logs were read and still hold them.
C21_Witness ==
    /\ answer.op = "Delegator.get_usage_summary"
    /\ Len(exec_log) = 2
    /\ exec_log[1].timestamp < exec_log[2].timestamp
    /\ exec_calls = 3

Last(seq) == seq[Len(seq)]

\* The paths the references of a prompt argument name, in their order.
ReferencedPaths(full_prompt) ==
    [i \in 1..(Len(full_prompt) - 1) |-> full_prompt[i][2]]

\* Each listed path of a kind in kinds is referenced, in the order given, a
\* file as @path and a directory as @path/**/*, and the prompt follows.
ReferencesExactly(full_prompt, files, prompt, kinds) ==
    /\ Last(full_prompt) = prompt
    /\ ReferencedPaths(full_prompt) =
           SelectSeq(files, LAMBDA p : PathKind(p) \in kinds)
    /\ \A i \in 1..(Len(full_prompt) - 1) :
          LET p == full_prompt[i][2]
          IN /\ PathKind(p) # "missing"
             /\ full_prompt[i] = IF PathKind(p) = "dir" THEN <<"@", p, "/**/*">>
                                 ELSE <<"@", p>>

RECURSIVE CountedBytes(_, _)
CountedBytes(op, paths) ==
    IF paths = <<>> THEN 0
    ELSE (IF PathKind(Head(paths)) \in {"file", "dir"}
          THEN IF op = "estimate_task_tokens" THEN TaskPathChars(Head(paths))
               ELSE PathChars(Head(paths))
          ELSE 0)
         + CountedBytes(op, Tail(paths))

\* r = floor(x / 4)
IsFloorOfQuarter(r, x) == 4 * r <= x /\ x < 4 * (r + 1)

\* C23: estimate_task_tokens (and Delegator.estimate_tokens) returns
\* floor((prompt length + bytes of the counted files) / 4); a missing or
\* inaccessible path adds nothing and raises nothing, so one missing path and
\* a prompt length of 100 give 25.
C23_EstimateIsFloorOfQuarter ==
    [][answer'.op \in {"estimate_task_tokens", "Delegator.estimate_tokens"} =>
          /\ answer'.status = "returned"
          /\ IsFloorOfQuarter(answer'.tokens,
                              answer'.prompt_length
                                + CountedBytes(answer'.op, answer'.file_paths))
          /\ (/\ answer'.prompt_length = 100
              /\ \A i \in 1..Len(answer'.file_paths) :
                    PathKind(answer'.file_paths[i]) \in {"missing", "inaccessible"})
                => answer'.tokens = 25
      ]_vars

\* The example: one missing path, prompt length 100; and a file of 9 bytes
\* with it, 109 characters, 27 tokens.
C23_Witness ==
    /\ answer.op = "estimate_task_tokens"
    /\ answer.prompt_length = 100
    /\ \/ answer.file_paths = <<"missing">> /\ answer.tokens = 25
       \/ answer.file_paths = <<"missing", "a.py">> /\ answer.tokens = 27

RateOver(threshold) ==
    \/ Exceeds(CurrentUsage.requests_last_minute, limits.requests_per_minute,
               threshold)
    \/ Exceeds(CurrentUsage.tokens_last_minute, limits.tokens_per_minute, threshold)

DailyOver(threshold) == DailyTokensOver(threshold) \/ DailyRequestsOver(threshold)

Before(seq, x, y) ==
    \E i \in 1..Len(seq), j \in 1..Len(seq) : i < j /\ seq[i] = x /\ seq[j] = y

\* C24: a requests-per-minute or tokens-per-minute ratio above 0.95 gives a
\* critical level with the approaching-rate-limit message; when a daily ratio
\* is above 0.95 too, the status is the daily-quota critical one and the
\* warnings hold both critical messages, the rate message before the daily.
C24_LaterCheckOverrides ==
    [][get_quota_status(1) =>
          /\ RateOver(CRITICAL_THRESHOLD) =>
                /\ Level(answer'.status) = "critical"
                /\ Contains(answer'.warnings, RateLimitSoon)
          /\ (RateOver(CRITICAL_THRESHOLD) /\ ~DailyOver(CRITICAL_THRESHOLD)) =>
                answer'.status = "[CRITICAL] Rate Limit Soon"
          /\ (RateOver(CRITICAL_THRESHOLD) /\ DailyOver(CRITICAL_THRESHOLD)) =>
                /\ answer'.status = "[CRITICAL] Daily Quota Exhausted"
                /\ Before(answer'.warnings, RateLimitSoon, DailyQuotaExhausted)
      ]_vars

\* Both critical checks fired in one answer.
C24_Witness ==
    /\ answer.op = "get_quota_status"
    /\ usage_data[1] # None
    /\ RateOver(CRITICAL_THRESHOLD)
    /\ DailyOver(CRITICAL_THRESHOLD)
    /\ answer.status = "[CRITICAL] Daily Quota Exhausted"
    /\ Before(answer.warnings, RateLimitSoon, DailyQuotaExhausted)

\* The reason of the first deny condition that holds, in the order request
\* rate, per-minute tokens, daily tokens.
FirstReason(u, e) ==
    IF RateDenied(u) THEN RateIssue
    ELSE IF TokenRateDenied(u, e) THEN TokenRateIssue
    ELSE DailyIssue

\* C25: can_handle_task answers allowed = true exactly when its list of
\* reasons is empty, and a denial's list holds the reason of the first deny
\* condition that is true, in the order rate, per-minute tokens, daily tokens.
C25_FirstReasonListed ==
    [][can_handle_task(1, check_result'.estimated_tokens) =>
          LET u == get_current_usage(usage_data[1][1], now)
              r == check_result'
          IN /\ r.can_handle <=> (r.issues = <<>>)
             /\ ~r.can_handle =>
                    Contains(r.issues, FirstReason(u, r.estimated_tokens))]_vars

\* A denial for the per-minute tokens while the daily condition holds too.
C25_Witness ==
    /\ check_result.called
    /\ ~check_result.can_handle
    /\ check_result.issues = <<TokenRateIssue>>
    /\ usage_data[1] # None
    /\ DailyDenied(get_current_usage(usage_data[1][1], now),
                   check_result.estimated_tokens)

\* The stored requests that are not older than 24 hours at instant t, in
\* their stored order.
WithinRetention(requests, t) ==
    SelectSeq(requests, LAMBDA req : t - req.timestamp <= 24 * 3600)

\* C26: after the usage data is loaded from the usage file, the requests
\* list holds exactly the stored requests of the last 24 hours, in their
\* stored order: none older than 24 hours remains, none inside is dropped.
C26_LoadKeepsLastDay ==
    [][(load(1) /\ usage_file # None) =>
          usage_data'[1][1].requests
              = WithinRetention(usage_file[1].requests, now)]_vars

\* C27: when every record_request follows a can_handle_task for the same
\* tokens that allowed it, the requests of the last minute stay at most
\* requests_per_minute - 1, the tokens of the last minute at most
\* tokens_per_minute and daily_tokens at most tokens_per_day.
C27_AdmissionKeepsLimits ==
    usage_data[1] # None =>
        /\ CurrentUsage.requests_last_minute <= limits.requests_per_minute - 1
        /\ CurrentUsage.tokens_last_minute <= limits.tokens_per_minute
        /\ CurrentUsage.daily_tokens <= limits.tokens_per_day

\* Admitted requests that fill all three limits.
C27_Witness ==
    /\ usage_data[1] # None
    /\ Len(usage_data[1][1].requests) = 3
    /\ CurrentUsage.requests_last_minute = limits.requests_per_minute - 1
    /\ CurrentUsage.tokens_last_minute = limits.tokens_per_minute
    /\ CurrentUsage.daily_tokens = limits.tokens_per_day

\* C28: when every record_request follows a can_handle_task that allowed
\* it, requests_today never exceeds requests_per_day.
C28_AdmissionKeepsDailyRequests ==
    usage_data[1] # None =>
        CurrentUsage.requests_today <= limits.requests_per_day

\* The tokens of the successful requests in the requests list of data.
SuccessfulTokens(data) ==
    SumSeq([i \in 1..Len(data.requests) |->
               IF data.requests[i].success THEN data.requests[i].tokens ELSE 0])

\* C29: with one writer, daily_tokens never exceeds the tokens of the
\* successful requests retained in the requests list, in the tracker and in
\* the usage file: pruned and failed requests are not counted.
C29_DailyTokensWithinRetained ==
    /\ usage_data[1] # None =>
           usage_data[1][1].daily_tokens <= SuccessfulTokens(usage_data[1][1])
    /\ usage_file # None =>
           usage_file[1].daily_tokens <= SuccessfulTokens(usage_file[1])

\* A load pruned a request and kept a counter above zero.
C29_Witness ==
    /\ usage_data[1] # None
    /\ usage_file # None
    /\ Len(usage_data[1][1].requests) < Len(usage_file[1].requests)
    /\ usage_data[1][1].daily_tokens > 0
    /\ usage_data[1][1].daily_tokens = SuccessfulTokens(usage_data[1][1])

\* C30: a Delegator constructed over a directory without config.json sees
\* exactly the built-in default services, whatever configuration files
\* earlier Delegators of the process were constructed from.
C30_RegistriesIsolated ==
    [][(answer'.op = "load_configurations" /\ answer'.config = NoConfigFile) =>
          SERVICES' = DefaultServices]_vars

====
